---- MODULE Spec2Model ----
(***************************************************************************)
(* Model of store_repo_structure.py: main, get_repository_urls,            *)
(* extract_urls / collect_urls and save_urls_to_file.                      *)
(*                                                                         *)
(* Python values are records [t |-> type tag, v |-> payload]:              *)
(*   str   v = the sequence of its characters                              *)
(*   list  v = the sequence of its elements                                *)
(*   dict  v = the sequence of its items [k |-> key, v |-> value], in      *)
(*             insertion order, keys distinct                              *)
(*   int, none, other   v = <<>> (scalars and foreign objects)             *)
(***************************************************************************)
EXTENDS Integers, Sequences, FiniteSets, TLC

VARIABLES
    env,                  \* value of MONGODB_URI in the process environment
    docs,                 \* documents of the collection, in cursor order
    pc,                   \* position of the single thread of control
    mongodb_uri,          \* main: mongodb_uri
    client,               \* get_repository_urls: "unbound" | "open" | "closed"
    clients_created,      \* number of MongoClient objects constructed
    close_calls,          \* number of client.close() calls
    docs_read,            \* number of documents the cursor has yielded
    repository_urls,      \* get_repository_urls: repository_urls (dict)
    repo_doc,             \* get_repository_urls: repo_doc
    repo_name,            \* get_repository_urls: repo_name
    stack,                \* call stack of collect_urls frames, top first
    urls,                 \* extract_urls: urls (set)
    visits,               \* number of collect_urls calls of the current extraction
    extract_calls,        \* number of extract_urls calls of the run
    url_list,             \* value returned by extract_urls
    raised,               \* exceptions raised so far, oldest first
    retval,               \* get_repository_urls: the value its return statement set
    main_urls,            \* main: repository_urls
    pi,                   \* index of the current item of a loop over repository_urls
    pj,                   \* index of the current url of the inner loop
    console,              \* lines printed to stdout
    file                  \* the report file: [opened, lines]

vars == <<env, docs, pc, mongodb_uri, client, clients_created, close_calls,
          docs_read, repository_urls, repo_doc, repo_name, stack, urls,
          visits, extract_calls, url_list, raised, retval, main_urls, pi, pj,
          console, file>>

cfgVars == <<env, docs, mongodb_uri>>
dbVars == <<client, clients_created, close_calls, docs_read>>
loopVars == <<repository_urls, repo_doc, repo_name>>
extractVars == <<stack, urls, visits, extract_calls, url_list>>
retVars == <<raised, retval, main_urls>>
outVars == <<console, file, pi, pj>>

-----------------------------------------------------------------------------
(* Bounds *)

MaxNodes == 4       \* structures of the extraction harness have at most this many nodes
MaxDocs == 2        \* the collection holds at most this many documents

-----------------------------------------------------------------------------
(* Python values *)

Str(s) == [t |-> "str", v |-> s]
List(s) == [t |-> "list", v |-> s]
Dict(s) == [t |-> "dict", v |-> s]
IntVal == [t |-> "int", v |-> <<>>]
NoneVal == [t |-> "none", v |-> <<>>]
OtherVal == [t |-> "other", v |-> <<>>]

Range(s) == {s[i] : i \in DOMAIN s}

\* the literal 'https://'
HTTPS == <<"h", "t", "t", "p", "s", ":", "/", "/">>

UrlA == HTTPS \o <<"a">>
UrlB == HTTPS \o <<"b">>
PlainHttp == <<"h", "t", "t", "p", ":", "/", "/", "a">>
ShortHttps == <<"h", "t", "t", "p", "s", ":", "/">>
KeyK == <<"k">>
KeyUrl == HTTPS \o <<"k">>

\* the default of repo_doc.get('repo', 'Unknown')
Unknown == <<"U", "n", "k", "n", "o", "w", "n">>
Alpha == <<"a", "l", "p", "h", "a">>

Strings == {UrlA, UrlB, PlainHttp, ShortHttps}
Keys == {KeyK, KeyUrl}
Leaves == {Str(s) : s \in Strings} \cup {IntVal, OtherVal}

RECURSIVE StructsOfSize(_), ListBodies(_), DictBodies(_, _)
\* all values with exactly n nodes
StructsOfSize(n) ==
    (IF n = 1 THEN Leaves ELSE {})
    \cup {List(b) : b \in ListBodies(n - 1)}
    \cup {Dict(b) : b \in DictBodies(n - 1, Keys)}
ListBodies(m) ==
    IF m = 0 THEN {<<>>}
    ELSE UNION {{<<c>> \o r : c \in StructsOfSize(k), r \in ListBodies(m - k)}
                : k \in 1..m}
DictBodies(m, ks) ==
    IF m = 0 THEN {<<>>}
    ELSE UNION {{<<[k |-> kk[1], v |-> c]>> \o r :
                    c \in StructsOfSize(kk[2]),
                    r \in DictBodies(m - kk[2], ks \ {kk[1]})}
                : kk \in ks \X (1..m)}

Structures == UNION {StructsOfSize(n) : n \in 1..MaxNodes}

-----------------------------------------------------------------------------
(* extract_urls and collect_urls *)

\* str.startswith(prefix)
StartsWith(s, prefix) ==
    /\ Len(s) >= Len(prefix)
    /\ SubSeq(s, 1, Len(prefix)) = prefix

\* the prefix test left out: every str is collected
IsUrl_AnyStr(item) == item.t = "str"

\* line 22: isinstance(item, str) and item.startswith('https://')
IsUrl(item) == item.t = "str" /\ StartsWith(item.v, HTTPS)

\* iterating the dict itself: its keys, not its values
Values_Keys(item) == [i \in DOMAIN item.v |-> Str(item.v[i].k)]

\* dict.values()
Values(item) == [i \in DOMAIN item.v |-> item.v[i].v]

\* the dict branch left out
Subitems_NoDict(item) ==
    IF IsUrl(item) THEN <<>>
    ELSE IF item.t = "list" THEN item.v
    ELSE <<>>

\* lines 22-29: the values collect_urls(item) calls itself on, in order
Subitems(item) ==
    IF IsUrl(item) THEN <<>>
    ELSE IF item.t = "list" THEN item.v
    ELSE IF item.t = "dict" THEN Values(item)
    ELSE <<>>

\* line 23: urls.add(item), when the first branch is taken
Collected(item, set) == IF IsUrl(item) THEN set \cup {item.v} ELSE set

\* list(urls): the elements of the set, each once, in an order the caller
\* cannot rely on
ListOf(set) ==
    {l \in [1..Cardinality(set) -> set] :
        \A i, j \in 1..Cardinality(set) : l[i] = l[j] => i = j}

Frame(item) == [item |-> item, next |-> 1]

\* lines 19 and 31: urls = set(); collect_urls(structure)
ExtractCall ==
    /\ pc = "extract"
    /\ urls' = Collected(repo_doc.structure, {})
    /\ stack' = <<Frame(repo_doc.structure)>>
    /\ visits' = 1
    /\ extract_calls' = extract_calls + 1
    /\ pc' = "collect"
    /\ UNCHANGED <<cfgVars, dbVars, loopVars, url_list, retVars, outVars>>

\* lines 25-26 and 28-29: the loop of the top frame calls collect_urls on its
\* next subitem
CollectRecurse ==
    /\ pc = "collect"
    /\ stack # <<>>
    /\ LET top == Head(stack)
           subs == Subitems(top.item)
       IN /\ top.next <= Len(subs)
          /\ stack' = <<Frame(subs[top.next])>>
                      \o <<[top EXCEPT !.next = @ + 1]>> \o Tail(stack)
          /\ urls' = Collected(subs[top.next], urls)
    /\ visits' = visits + 1
    /\ UNCHANGED <<pc, cfgVars, dbVars, loopVars, extract_calls, url_list,
                   retVars, outVars>>

\* the top collect_urls call has nothing left to do and returns
CollectReturn ==
    /\ pc = "collect"
    /\ stack # <<>>
    /\ Head(stack).next > Len(Subitems(Head(stack).item))
    /\ stack' = Tail(stack)
    /\ UNCHANGED <<pc, cfgVars, dbVars, loopVars, urls, visits, extract_calls,
                   url_list, retVars, outVars>>

\* line 32: return list(urls)
ExtractReturn ==
    /\ pc = "collect"
    /\ stack = <<>>
    /\ url_list' \in ListOf(urls)
    /\ pc' = "assign"
    /\ UNCHANGED <<cfgVars, dbVars, loopVars, stack, urls, visits,
                   extract_calls, retVars, outVars>>

-----------------------------------------------------------------------------
(* Truth value testing, dicts, documents, output lines *)

\* a test against None instead of a truth value test
Falsy_NoneOnly(value) == value.t = "none"

\* bool(value) is False: None, and the empty str, list and dict
Falsy(value) ==
    \/ value.t = "none"
    \/ value.t \in {"str", "list", "dict"} /\ Len(value.v) = 0

\* d.setdefault(key, value): an existing key keeps its value
DictSet_KeepFirst(d, key, value) ==
    IF \E i \in DOMAIN d.v : d.v[i].k = key
    THEN d
    ELSE Dict(Append(d.v, [k |-> key, v |-> value]))

\* d[key] = value: an existing key keeps its position, a new key goes last
DictSet(d, key, value) ==
    IF \E i \in DOMAIN d.v : d.v[i].k = key
    THEN Dict([i \in DOMAIN d.v |->
                 IF d.v[i].k = key THEN [k |-> key, v |-> value] ELSE d.v[i]])
    ELSE Dict(Append(d.v, [k |-> key, v |-> value]))

\* the test also asks for a 'repo' field
HasStructure_Named(doc) == "structure" \in DOMAIN doc /\ "repo" \in DOMAIN doc

\* line 58: 'structure' in repo_doc
HasStructure(doc) == "structure" \in DOMAIN doc

\* line 59: repo_doc.get('repo', 'Unknown')
RepoName(doc) == IF "repo" \in DOMAIN doc THEN doc.repo ELSE Unknown

\* a printed or written line: the format string and the value formatted into it
Line(fmt, arg) == [fmt |-> fmt, arg |-> arg]

\* an exception object: its type and the statement that raised it
Exception(type, at) == [type |-> type, at |-> at]

\* the documents the database may hold
MongoUri == <<"m", "o", "n", "g", "o", "d", "b", ":", "/", "/", "h">>
Names == {Alpha, Unknown}
DupStructure ==
    Dict(<<[k |-> KeyK, v |-> Str(UrlA)],
           [k |-> KeyUrl, v |-> Dict(<<[k |-> KeyK, v |-> Str(UrlA)]>>)]>>)
MixedStructure ==
    List(<<Str(UrlA), List(<<Str(UrlB), Str(PlainHttp)>>)>>)
DocStructures == {DupStructure, MixedStructure, Dict(<<>>), Str(UrlB)}
DocForms(i) ==
    {[id |-> i]}
    \cup {[id |-> i, repo |-> n] : n \in Names}
    \cup {[id |-> i, structure |-> s] : s \in DocStructures}
    \cup {[id |-> i, repo |-> n, structure |-> s] : n \in Names, s \in DocStructures}
RECURSIVE CollectionsOfLen(_)
\* the collections of n documents, the i-th with id i
CollectionsOfLen(n) ==
    IF n = 0 THEN {<<>>}
    ELSE {Append(c, d) : c \in CollectionsOfLen(n - 1), d \in DocForms(n)}
Collections == UNION {CollectionsOfLen(n) : n \in 0..MaxDocs}

-----------------------------------------------------------------------------
(* main, up to the call of get_repository_urls *)

\* line 98: mongodb_uri = os.getenv('MONGODB_URI')
MainGetenv ==
    /\ pc = "main"
    /\ mongodb_uri' = env
    /\ pc' = "check"
    /\ UNCHANGED <<env, docs, dbVars, loopVars, extractVars, retVars, outVars>>

\* lines 100-102: if not mongodb_uri: print(...); return
MainNoConfig ==
    /\ pc = "check"
    /\ Falsy(mongodb_uri)
    /\ console' = Append(console,
                     Line("Error: MONGODB_URI environment variable not set", <<>>))
    /\ pc' = "done"
    /\ UNCHANGED <<cfgVars, dbVars, loopVars, extractVars, retVars, file, pi, pj>>

\* line 105: repository_urls = get_repository_urls(mongodb_uri)
MainCallGet ==
    /\ pc = "check"
    /\ ~Falsy(mongodb_uri)
    /\ pc' = "connect"
    /\ UNCHANGED <<cfgVars, dbVars, loopVars, extractVars, retVars, outVars>>

-----------------------------------------------------------------------------
(* get_repository_urls *)

\* a statement of the try block raises: control goes to the except clause
Raise(type) ==
    /\ raised' = Append(raised, Exception(type, pc))
    /\ pc' = "except"
    /\ UNCHANGED <<cfgVars, dbVars, loopVars, extractVars, retval, main_urls,
                   outVars>>

\* line 47: client = MongoClient(mongodb_uri)
Connect ==
    /\ pc = "connect"
    /\ client' = "open"
    /\ clients_created' = clients_created + 1
    /\ pc' = "select"
    /\ UNCHANGED <<cfgVars, close_calls, docs_read, loopVars, extractVars,
                   retVars, outVars>>

\* line 47: MongoClient(mongodb_uri) raises (an invalid URI, a failed SRV
\* lookup): client is never bound
ConnectRaise ==
    /\ pc = "connect"
    /\ Raise("PyMongoError")

\* lines 48-49: db = client[database]; repo_collection = db[collection]
Select ==
    /\ pc = "select"
    /\ pc' = "find"
    /\ UNCHANGED <<cfgVars, dbVars, loopVars, extractVars, retVars, outVars>>

SelectRaise ==
    /\ pc = "select"
    /\ Raise("PyMongoError")

\* lines 52 and 55: repositories = repo_collection.find(); repository_urls = {}
Find ==
    /\ pc = "find"
    /\ repository_urls' = Dict(<<>>)
    /\ pc' = "loop"
    /\ UNCHANGED <<cfgVars, dbVars, repo_doc, repo_name, extractVars, retVars,
                   outVars>>

FindRaise ==
    /\ pc = "find"
    /\ Raise("PyMongoError")

\* line 57: the cursor yields the next document
LoopNext ==
    /\ pc = "loop"
    /\ docs_read < Len(docs)
    /\ repo_doc' = docs[docs_read + 1]
    /\ docs_read' = docs_read + 1
    /\ pc' = "body"
    /\ UNCHANGED <<cfgVars, client, clients_created, close_calls,
                   repository_urls, repo_name, extractVars, retVars, outVars>>

\* line 57: the cursor raises while it is iterated
LoopRaise ==
    /\ pc = "loop"
    /\ Raise("PyMongoError")

\* lines 57 and 63: the cursor is exhausted; return repository_urls
LoopEnd ==
    /\ pc = "loop"
    /\ docs_read = Len(docs)
    /\ retval' = repository_urls
    /\ pc' = "finally"
    /\ UNCHANGED <<cfgVars, dbVars, loopVars, extractVars, raised, main_urls,
                   outVars>>

\* line 58, condition false: the document is skipped
BodySkip ==
    /\ pc = "body"
    /\ ~HasStructure(repo_doc)
    /\ pc' = "loop"
    /\ UNCHANGED <<cfgVars, dbVars, loopVars, extractVars, retVars, outVars>>

\* lines 58-60: repo_name = repo_doc.get('repo', 'Unknown'), then the call
\* extract_urls(repo_doc['structure'])
BodyName ==
    /\ pc = "body"
    /\ HasStructure(repo_doc)
    /\ repo_name' = RepoName(repo_doc)
    /\ pc' = "extract"
    /\ UNCHANGED <<cfgVars, dbVars, repository_urls, repo_doc, extractVars,
                   retVars, outVars>>

\* line 61: repository_urls[repo_name] = urls
Assign ==
    /\ pc = "assign"
    /\ repository_urls' = DictSet(repository_urls, repo_name, url_list)
    /\ pc' = "loop"
    /\ UNCHANGED <<cfgVars, dbVars, repo_doc, repo_name, extractVars, retVars,
                   outVars>>

\* lines 65-67: except Exception as e: print(...); return {}
Except ==
    /\ pc = "except"
    /\ console' = Append(console, Line("Error retrieving repository URLs: {e}", <<>>))
    /\ retval' = Dict(<<>>)
    /\ pc' = "finally"
    /\ UNCHANGED <<cfgVars, dbVars, loopVars, extractVars, raised, main_urls,
                   file, pi, pj>>

\* the finally clause without the close call
FinallyClose_Leak ==
    /\ pc = "finally"
    /\ client # "unbound"
    /\ main_urls' = retval
    /\ pc' = "if"
    /\ UNCHANGED <<cfgVars, dbVars, loopVars, extractVars, raised, retval,
                   outVars>>

\* line 69 with client bound: client.close(); then the pending return
\* completes and main binds the result (line 105)
FinallyClose ==
    /\ pc = "finally"
    /\ client # "unbound"
    /\ client' = "closed"
    /\ close_calls' = close_calls + 1
    /\ main_urls' = retval
    /\ pc' = "if"
    /\ UNCHANGED <<cfgVars, clients_created, docs_read, loopVars, extractVars,
                   raised, retval, outVars>>

\* line 69 with client never bound: evaluating the name client raises
\* UnboundLocalError, which replaces the pending return and leaves
\* get_repository_urls and main uncaught
FinallyUnbound ==
    /\ pc = "finally"
    /\ client = "unbound"
    /\ raised' = Append(raised, Exception("UnboundLocalError", pc))
    /\ pc' = "crashed"
    /\ UNCHANGED <<cfgVars, dbVars, loopVars, extractVars, retval, main_urls,
                   outVars>>

-----------------------------------------------------------------------------
(* main after get_repository_urls has returned *)

Items(d) == d.v

\* line 107, condition false: main ends
MainIfEmpty ==
    /\ pc = "if"
    /\ Falsy(main_urls)
    /\ pc' = "done"
    /\ UNCHANGED <<cfgVars, dbVars, loopVars, extractVars, retVars, outVars>>

\* line 107, condition true: the loop of line 109 starts
MainIfPrint ==
    /\ pc = "if"
    /\ ~Falsy(main_urls)
    /\ pi' = 1
    /\ pj' = 0
    /\ pc' = "print"
    /\ UNCHANGED <<cfgVars, dbVars, loopVars, extractVars, retVars, console, file>>

\* line 110: print(f"Repository: {repo}")
PrintRepo ==
    /\ pc = "print"
    /\ pi <= Len(Items(main_urls))
    /\ pj = 0
    /\ console' = Append(console, Line("Repository: {repo}", Items(main_urls)[pi].k))
    /\ pj' = 1
    /\ UNCHANGED <<pc, cfgVars, dbVars, loopVars, extractVars, retVars, file, pi>>

\* line 112: print(f"- {url}")
PrintUrl ==
    /\ pc = "print"
    /\ pi <= Len(Items(main_urls))
    /\ pj >= 1
    /\ pj <= Len(Items(main_urls)[pi].v)
    /\ console' = Append(console, Line("- {url}", Items(main_urls)[pi].v[pj]))
    /\ pj' = pj + 1
    /\ UNCHANGED <<pc, cfgVars, dbVars, loopVars, extractVars, retVars, file, pi>>

\* line 111 exhausted: back to line 109 for the next item
PrintNextRepo ==
    /\ pc = "print"
    /\ pi <= Len(Items(main_urls))
    /\ pj > Len(Items(main_urls)[pi].v)
    /\ pi' = pi + 1
    /\ pj' = 0
    /\ UNCHANGED <<pc, cfgVars, dbVars, loopVars, extractVars, retVars, console,
                   file>>

\* main ends after the printing, without the call of line 115
MainCallSave_Return ==
    /\ pc = "print"
    /\ pi > Len(Items(main_urls))
    /\ pc' = "done"
    /\ UNCHANGED <<cfgVars, dbVars, loopVars, extractVars, retVars, outVars>>

\* line 109 exhausted, line 115: save_urls_to_file(repository_urls)
MainCallSave ==
    /\ pc = "print"
    /\ pi > Len(Items(main_urls))
    /\ pc' = "open"
    /\ UNCHANGED <<cfgVars, dbVars, loopVars, extractVars, retVars, outVars>>

-----------------------------------------------------------------------------
(* save_urls_to_file *)

\* the name of the report file, the default of output_file
OutputFile == <<"r", "e", "p", "o", "s", "i", "t", "o", "r", "y", "_",
                "u", "r", "l", "s", ".", "t", "x", "t">>

\* no except clause: the exception leaves save_urls_to_file and main
SaveRaise_Uncaught ==
    /\ raised' = Append(raised, Exception("OSError", pc))
    /\ pc' = "crashed"
    /\ UNCHANGED <<cfgVars, dbVars, loopVars, extractVars, retval, main_urls,
                   outVars>>

\* a statement of the try block of save_urls_to_file raises
SaveRaise ==
    /\ raised' = Append(raised, Exception("OSError", pc))
    /\ pc' = "save_except"
    /\ UNCHANGED <<cfgVars, dbVars, loopVars, extractVars, retval, main_urls,
                   outVars>>

\* line 80: open(output_file, 'w') creates or truncates the file
SaveOpen ==
    /\ pc = "open"
    /\ file' = [opened |-> TRUE, lines |-> <<>>]
    /\ pi' = 1
    /\ pj' = 0
    /\ pc' = "write"
    /\ UNCHANGED <<cfgVars, dbVars, loopVars, extractVars, retVars, console>>

\* line 80: open raises
SaveOpenRaise ==
    /\ pc = "open"
    /\ SaveRaise

\* line 82: f.write(f"Repository: {repo}\n")
WriteRepo ==
    /\ pc = "write"
    /\ pi <= Len(Items(main_urls))
    /\ pj = 0
    /\ file' = [file EXCEPT !.lines =
                   Append(@, Line("Repository: {repo}\n", Items(main_urls)[pi].k))]
    /\ pj' = 1
    /\ UNCHANGED <<pc, cfgVars, dbVars, loopVars, extractVars, retVars, console,
                   pi>>

\* line 85: f.write(f"- {url}\n")
WriteUrl ==
    /\ pc = "write"
    /\ pi <= Len(Items(main_urls))
    /\ pj >= 1
    /\ pj <= Len(Items(main_urls)[pi].v)
    /\ file' = [file EXCEPT !.lines =
                   Append(@, Line("- {url}\n", Items(main_urls)[pi].v[pj]))]
    /\ pj' = pj + 1
    /\ UNCHANGED <<pc, cfgVars, dbVars, loopVars, extractVars, retVars, console,
                   pi>>

\* line 87: f.write("\n"), then the next item
WriteBlank ==
    /\ pc = "write"
    /\ pi <= Len(Items(main_urls))
    /\ pj > Len(Items(main_urls)[pi].v)
    /\ file' = [file EXCEPT !.lines = Append(@, Line("\n", <<>>))]
    /\ pi' = pi + 1
    /\ pj' = 0
    /\ UNCHANGED <<pc, cfgVars, dbVars, loopVars, extractVars, retVars, console>>

\* lines 82-87 or the close of the with block: a write, or the flush on
\* close, raises; what was written so far stays in the file
WriteRaise ==
    /\ pc = "write"
    /\ SaveRaise

\* line 89: print(f"URLs saved to {output_file}")
SaveDone ==
    /\ pc = "write"
    /\ pi > Len(Items(main_urls))
    /\ console' = Append(console, Line("URLs saved to {output_file}", OutputFile))
    /\ pc' = "done"
    /\ UNCHANGED <<cfgVars, dbVars, loopVars, extractVars, retVars, file, pi, pj>>

\* lines 90-91: except Exception as e: print(...)
SaveExcept ==
    /\ pc = "save_except"
    /\ console' = Append(console, Line("Error saving URLs to file: {e}", <<>>))
    /\ pc' = "done"
    /\ UNCHANGED <<cfgVars, dbVars, loopVars, extractVars, retVars, file, pi, pj>>

-----------------------------------------------------------------------------
(* The program *)

Init ==
    /\ env \in {NoneVal, Str(<<>>), Str(MongoUri)}
    /\ docs \in Collections
    /\ pc = "main"
    /\ mongodb_uri = NoneVal
    /\ client = "unbound"
    /\ clients_created = 0
    /\ close_calls = 0
    /\ docs_read = 0
    /\ repository_urls = Dict(<<>>)
    /\ repo_doc = [id |-> 0]
    /\ repo_name = Unknown
    /\ stack = <<>>
    /\ urls = {}
    /\ visits = 0
    /\ extract_calls = 0
    /\ url_list = <<>>
    /\ raised = <<>>
    /\ retval = NoneVal
    /\ main_urls = NoneVal
    /\ pi = 1
    /\ pj = 0
    /\ console = <<>>
    /\ file = [opened |-> FALSE, lines |-> <<>>]

Next ==
    \/ MainGetenv
    \/ MainNoConfig
    \/ MainCallGet
    \/ Connect
    \/ ConnectRaise
    \/ Select
    \/ SelectRaise
    \/ Find
    \/ FindRaise
    \/ LoopNext
    \/ LoopRaise
    \/ LoopEnd
    \/ BodySkip
    \/ BodyName
    \/ ExtractCall
    \/ CollectRecurse
    \/ CollectReturn
    \/ ExtractReturn
    \/ Assign
    \/ Except
    \/ FinallyClose
    \/ FinallyUnbound
    \/ MainIfEmpty
    \/ MainIfPrint
    \/ PrintRepo
    \/ PrintUrl
    \/ PrintNextRepo
    \/ MainCallSave
    \/ SaveOpen
    \/ SaveOpenRaise
    \/ WriteRepo
    \/ WriteUrl
    \/ WriteBlank
    \/ WriteRaise
    \/ SaveDone
    \/ SaveExcept

Spec == Init /\ [][Next]_vars

-----------------------------------------------------------------------------
(* extract_urls on its own, applied to every structure within the bound *)

InitExtract ==
    /\ env = NoneVal
    /\ docs = <<>>
    /\ pc = "extract"
    /\ mongodb_uri = NoneVal
    /\ client = "unbound"
    /\ clients_created = 0
    /\ close_calls = 0
    /\ docs_read = 0
    /\ repository_urls = Dict(<<>>)
    /\ \E s \in Structures : repo_doc = [structure |-> s]
    /\ repo_name = Unknown
    /\ stack = <<>>
    /\ urls = {}
    /\ visits = 0
    /\ extract_calls = 0
    /\ url_list = <<>>
    /\ raised = <<>>
    /\ retval = NoneVal
    /\ main_urls = NoneVal
    /\ pi = 1
    /\ pj = 0
    /\ console = <<>>
    /\ file = [opened |-> FALSE, lines |-> <<>>]

NextExtract ==
    \/ ExtractCall
    \/ CollectRecurse
    \/ CollectReturn
    \/ ExtractReturn

SpecExtract == InitExtract /\ [][NextExtract]_vars

\* the interpreter runs the single thread until it returns
FairSpecExtract == SpecExtract /\ WF_vars(NextExtract)

-----------------------------------------------------------------------------
(* What the claims speak of, stated without the operators of the program *)

\* x starts with the eight characters https://
HasHttpsPrefix(x) ==
    /\ Len(x) >= 8
    /\ x[1] = "h" /\ x[2] = "t" /\ x[3] = "t" /\ x[4] = "p" /\ x[5] = "s"
    /\ x[6] = ":" /\ x[7] = "/" /\ x[8] = "/"

RECURSIVE ReachableStrings(_)
\* the strings that occur as the root, as a sequence element or as a mapping
\* value at any depth
ReachableStrings(s) ==
    IF s.t = "str" THEN {s.v}
    ELSE IF s.t = "list" THEN UNION {ReachableStrings(s.v[i]) : i \in DOMAIN s.v}
    ELSE IF s.t = "dict" THEN UNION {ReachableStrings(s.v[i].v) : i \in DOMAIN s.v}
    ELSE {}

ExpectedUrls(s) == {x \in ReachableStrings(s) : HasHttpsPrefix(x)}

RECURSIVE NodeCount(_), NodeCountFrom(_, _)
\* the number of nodes of a structure: itself, plus the nodes of the elements
\* of a sequence or of the values of a mapping
NodeCount(s) ==
    1 + (IF s.t = "list" THEN NodeCountFrom(s.v, 1)
         ELSE IF s.t = "dict" THEN NodeCountFrom([i \in DOMAIN s.v |-> s.v[i].v], 1)
         ELSE 0)
NodeCountFrom(seq, i) ==
    IF i > Len(seq) THEN 0 ELSE NodeCount(seq[i]) + NodeCountFrom(seq, i + 1)

NoDuplicates(l) == \A a, b \in DOMAIN l : l[a] = l[b] => a = b

KeysOf(d) == {d.v[i].k : i \in DOMAIN d.v}

\* the name the index files a document under
ClaimedName(doc) == IF "repo" \in DOMAIN doc THEN doc.repo ELSE Unknown

\* positions of the documents that have a 'structure' field
Structured == {i \in DOMAIN docs : "structure" \in DOMAIN docs[i]}

\* position of the last document with a 'structure' field filed under name
LastWith(name) ==
    CHOOSE i \in Structured :
        /\ ClaimedName(docs[i]) = name
        /\ \A j \in Structured : ClaimedName(docs[j]) = name => j <= i

HasRaised(type) == \E i \in DOMAIN raised : raised[i].type = type

\* get_repository_urls has returned to main
Returned == main_urls.t = "dict"

\* the returned index has no repository
EmptyIndex == Len(main_urls.v) = 0

\* MONGODB_URI is absent or empty
ConfigMissing == env.t = "none" \/ (env.t = "str" /\ env.v = <<>>)

RECURSIVE ListingFrom(_, _), ReportFrom(_, _)
\* the console lines of an index: per repository its name, then its URLs
ListingFrom(items, i) ==
    IF i > Len(items) THEN <<>>
    ELSE <<Line("Repository: {repo}", items[i].k)>>
         \o [j \in 1..Len(items[i].v) |-> Line("- {url}", items[i].v[j])]
         \o ListingFrom(items, i + 1)
Listing(d) == ListingFrom(d.v, 1)
\* the lines of the report file of an index
ReportFrom(items, i) ==
    IF i > Len(items) THEN <<>>
    ELSE <<Line("Repository: {repo}\n", items[i].k)>>
         \o [j \in 1..Len(items[i].v) |-> Line("- {url}\n", items[i].v[j])]
         \o <<Line("\n", <<>>)>>
         \o ReportFrom(items, i + 1)
Report(d) == ReportFrom(d.v, 1)

ConfigError == Line("Error: MONGODB_URI environment variable not set", <<>>)
RetrievalError == Line("Error retrieving repository URLs: {e}", <<>>)
SavedMessage == Line("URLs saved to {output_file}", OutputFile)
SaveError == Line("Error saving URLs to file: {e}", <<>>)

-----------------------------------------------------------------------------
(* Claims *)

\* C1: when extract_urls returns, its result holds exactly the distinct
\* strings with the prefix https:// that occur as the root, as a sequence
\* element or as a mapping value at any depth of the structure, each once;
\* keys, other strings and scalars are not in it.
C1_ExactUrls ==
    pc = "assign" =>
        /\ Range(url_list) = ExpectedUrls(repo_doc.structure)
        /\ Len(url_list) = Cardinality(ExpectedUrls(repo_doc.structure))

\* extract_urls has returned for a mapping whose key starts with https:// and
\* whose value is a sequence of one URL and one string without the prefix
C1_Witness ==
    /\ pc = "assign"
    /\ repo_doc.structure =
           Dict(<<[k |-> KeyUrl, v |-> List(<<Str(UrlA), Str(PlainHttp)>>)]>>)
    /\ url_list = <<UrlA>>

\* C2: once the database collaborator has raised, the error never escapes:
\* the run does not end in an uncaught exception, and when
\* get_repository_urls is over the failure is logged and the index is empty.
C2_NoEscape ==
    HasRaised("PyMongoError") =>
        /\ pc # "crashed"
        /\ pc \in {"if", "done"} =>
               /\ main_urls = Dict(<<>>)
               /\ console = <<RetrievalError>>

\* C3: the key set of the index a successful retrieval returns is the set of
\* names of the documents that have a 'structure' field, each key once.
C3_KeySet ==
    (Returned /\ ~HasRaised("PyMongoError")) =>
        /\ KeysOf(main_urls) = {ClaimedName(docs[i]) : i \in Structured}
        /\ Len(main_urls.v) = Cardinality(KeysOf(main_urls))

\* a retrieval has returned an index whose only entry is "Unknown" with no
\* URL, from a named document without structure and an unnamed document
\* whose structure holds no URL
C3_Witness ==
    /\ pc = "done"
    /\ docs = <<[id |-> 1, repo |-> Alpha], [id |-> 2, structure |-> Dict(<<>>)]>>
    /\ main_urls = Dict(<<[k |-> Unknown, v |-> <<>>]>>)

\* C4: in the index a successful retrieval returns, the entry of a name
\* holds the URLs of the last document with a 'structure' field filed under
\* that name, and no others.
C4_LastWriteWins ==
    (Returned /\ ~HasRaised("PyMongoError")) =>
        \A i \in DOMAIN main_urls.v :
            /\ main_urls.v[i].k \in {ClaimedName(docs[j]) : j \in Structured}
            /\ Range(main_urls.v[i].v) =
                   ExpectedUrls(docs[LastWith(main_urls.v[i].k)].structure)

\* two documents filed under "Unknown", the first unnamed with two URLs, the
\* second named with one: the entry holds the second's URL only
C4_Witness ==
    /\ pc = "done"
    /\ docs = <<[id |-> 1, structure |-> MixedStructure],
                [id |-> 2, repo |-> Unknown, structure |-> DupStructure]>>
    /\ main_urls = Dict(<<[k |-> Unknown, v |-> <<UrlA>>]>>)

\* C5: when MONGODB_URI is absent or empty, main only gets as far as the
\* check: no client is created, no document is read, extract_urls is never
\* called, no report file is opened, and what is printed at the end is the
\* error message alone.
C5_NoConfigHalts ==
    ConfigMissing =>
        /\ pc \in {"main", "check", "done"}
        /\ clients_created = 0
        /\ docs_read = 0
        /\ extract_calls = 0
        /\ ~file.opened
        /\ pc = "done" => console = <<ConfigError>>
        /\ pc # "done" => console = <<>>

\* main has ended on an empty MONGODB_URI, with the error message printed
C5_Witness ==
    /\ pc = "done"
    /\ env = Str(<<>>)
    /\ console = <<ConfigError>>
    /\ Len(docs) > 0

\* C6 as stated: in every run with the configuration present in which the
\* retrieval succeeds, at the end of main the returned index has been printed
\* and the report file holds it, whatever the index contains.
C6_AlwaysPrintedAndSaved ==
    (pc = "done" /\ ~ConfigMissing /\ ~HasRaised("PyMongoError")) =>
        /\ SubSeq(console, 1, Len(Listing(main_urls))) = Listing(main_urls)
        /\ file.opened
        /\ file.lines = Report(main_urls)

\* C6 amended: when get_repository_urls returns a non-empty index, all of it
\* is printed before save_urls_to_file opens the report file, and the file
\* holds the whole index when main ends unless the writer raised; when the
\* returned index is empty nothing is printed of it and no file is opened.
C6_NonEmptyPrintedThenSaved ==
    Returned =>
        /\ EmptyIndex =>
               /\ ~file.opened
               /\ pc \in {"if", "done"}
               /\ \A i \in DOMAIN console : console[i] = RetrievalError
        /\ (file.opened \/ pc \in {"open", "save_except"}) =>
               SubSeq(console, 1, Len(Listing(main_urls))) = Listing(main_urls)
        /\ (pc = "done" /\ ~EmptyIndex) =>
               /\ SubSeq(console, 1, Len(Listing(main_urls))) = Listing(main_urls)
               /\ HasRaised("OSError") \/ (file.opened /\ file.lines = Report(main_urls))

\* main has ended after printing and saving an index of two repositories
C6_Witness ==
    /\ pc = "done"
    /\ Len(main_urls.v) = 2
    /\ raised = <<>>
    /\ file.opened
    /\ file.lines = Report(main_urls)
    /\ console = Listing(main_urls) \o <<SavedMessage>>

C8_ListsWellFormed ==
    \A d \in {repository_urls, retval, main_urls} :
        d.t = "dict" =>
            \A i \in DOMAIN d.v :
                /\ NoDuplicates(d.v[i].v)
                /\ \A a \in DOMAIN d.v[i].v : HasHttpsPrefix(d.v[i].v[a])

\* the loop has filed a structure with two URLs and a string without the
\* prefix, and one in which the same URL occurs twice
C8_Witness ==
    /\ pc = "loop"
    /\ docs_read = 2
    /\ docs = <<[id |-> 1, repo |-> Alpha, structure |-> MixedStructure],
                [id |-> 2, structure |-> DupStructure]>>
    /\ Len(repository_urls.v) = 2
    /\ Len(repository_urls.v[1].v) = 2
    /\ repository_urls.v[2].v = <<UrlA>>

C10_ClosedOnce ==
    /\ [](/\ client = "open" =>
                /\ close_calls = 0
                /\ pc \in {"select", "find", "loop", "body", "extract", "collect",
                           "assign", "except", "finally"}
          /\ client = "closed" =>
                /\ close_calls = 1
                /\ pc \in {"if", "print", "open", "write", "save_except", "done"}
          /\ client = "unbound" => close_calls = 0
          /\ (pc \in {"if", "print", "open", "write", "save_except", "done"}
              /\ clients_created > 0) => client = "closed")
    /\ [][client = "closed" =>
              /\ docs_read' = docs_read
              /\ close_calls' = close_calls
              /\ client' = "closed"]_vars

\* the cursor raised after a document was read; the client was closed once
\* and main has ended
C10_Witness ==
    /\ pc = "done"
    /\ HasRaised("PyMongoError")
    /\ docs_read = 1
    /\ Len(docs) = 2
    /\ client = "closed"
    /\ close_calls = 1

====
